---- MODULE Spec2Model ----
(***************************************************************************)
(* PR Review Agent: the session store and the two authentication modes of  *)
(* app/main.py (the device-flow polling task fetch_token_async and the     *)
(* direct-token branches of login), the review endpoint review_pr, and the *)
(* changed-file fetch of the three provider clients of app/git.            *)
(*                                                                         *)
(* Python strings are modelled as sequences of characters (a chunk of      *)
(* several characters stands for an opaque run where only the identity of  *)
(* the text matters); None and the empty string, which the code always     *)
(* tests by truthiness, are both the empty sequence.                       *)
(*                                                                         *)
(* The handlers are coroutines on one event loop: a step of the model is   *)
(* the code between two awaits.                                            *)
(***************************************************************************)
EXTENDS Integers, Sequences, FiniteSets, TLC

VARIABLES
    access_tokens,      \* main.py:160  dict client_id -> {token, provider, provider_url}
    last_write,         \* ghost: per client_id, what the latest store operation left
    pc,                 \* position of the fetch_token_async coroutine
    task_client_id,     \* its client_id argument
    task_provider_url,  \* its provider_url argument
    attempt,            \* main.py:165  its local counter
    requests,           \* ghost: token requests the task has issued
    sleeps,             \* ghost: interval sleeps the task has completed
    errors,             \* ghost: the task has received an error response
    inflight,           \* direct-token logins suspended in `await client.get_repositories()`
    response,           \* the latest HTTP response an endpoint has returned
    fetch,              \* the latest call made on a provider client, with what it returned
    scoring,            \* the latest analysis record scored, with its feedback
    pr,                 \* the latest change-request-level scoring or grading, with its result
    call                \* the latest call of a function on its own: its input, then its output

vars == <<access_tokens, last_write, pc, task_client_id, task_provider_url, attempt,
          requests, sleeps, errors, inflight, response, fetch, scoring, pr, call>>

taskVars == <<pc, task_client_id, task_provider_url, attempt, requests, sleeps, errors>>

-----------------------------------------------------------------------------
(* Bounds and program constants *)

max_attempts == 30

MinTokenLen == 20

MaxInFlight == 1

MaxFiles == 2

MaxFunctions == 3

MaxLint == 2

MaxIssues == 5

MaxComments == 5

MaxResults == 3

ClientIds == {"c1"}

-----------------------------------------------------------------------------
(* Strings *)

NoneStr == <<>>

RECURSIVE LStrip(_)
LStrip(s) == IF s # <<>> /\ Head(s) = " " THEN LStrip(Tail(s)) ELSE s

RECURSIVE RStrip(_, _)
RStrip(s, ch) ==
    IF s # <<>> /\ s[Len(s)] = ch THEN RStrip(SubSeq(s, 1, Len(s) - 1), ch) ELSE s

Strip(s) == RStrip(LStrip(s), " ")

StartsWith(s, p) == Len(s) >= Len(p) /\ SubSeq(s, 1, Len(p)) = p

-----------------------------------------------------------------------------
(* The session store *)

Session(token, provider, provider_url) ==
    [token |-> token, provider |-> provider, provider_url |-> provider_url]

PutFirstWins(store, client_id, session) ==
    IF client_id \in DOMAIN store THEN store ELSE (client_id :> session) @@ store

Put(store, client_id, session) == (client_id :> session) @@ store

PopNothing(store, client_id) == store

Pop(store, client_id) == [c \in DOMAIN store \ {client_id} |-> store[c]]

-----------------------------------------------------------------------------
(* Device flow: the token endpoint and get_access_token *)

GithubToken == <<"gho_token">>

TokenReply(status, access_token, error) ==
    [status |-> status, access_token |-> access_token, error |-> error, network |-> TRUE]

TokenReplies ==
    { TokenReply(200, GithubToken, ""),
      TokenReply(200, NoneStr, "authorization_pending"),
      TokenReply(200, NoneStr, "slow_down"),
      TokenReply(200, NoneStr, "access_denied"),
      TokenReply(200, NoneStr, "expired_token"),
      TokenReply(500, NoneStr, ""),
      [status |-> 0, access_token |-> NoneStr, error |-> "", network |-> FALSE] }

get_access_token(reply) ==
    IF ~reply.network
    THEN [kind |-> "raise", token |-> NoneStr]
    ELSE IF reply.status = 200 /\ reply.access_token # NoneStr
    THEN [kind |-> "return", token |-> reply.access_token]
    ELSE IF reply.error # ""
    THEN IF reply.error = "authorization_pending"
         THEN [kind |-> "return", token |-> NoneStr]
         ELSE [kind |-> "raise", token |-> NoneStr]
    ELSE [kind |-> "raise", token |-> NoneStr]

-----------------------------------------------------------------------------
(* fetch_token_async: the polling task (main.py:163-192) *)

LoopContinuesOffByOne(a) == a <= max_attempts

LoopContinues(a) == a < max_attempts

LoopBodySleepFirst == <<"sleep", "get_access_token">>

LoopBody == <<"get_access_token", "sleep">>

StageOf(p) == CHOOSE i \in DOMAIN LoopBody : LoopBody[i] = p

Running == pc \in {"get_access_token", "sleep"}

\* Suspend at the await point p; reaching get_access_token sends one token request.
Enter(p, reqs) ==
    /\ pc' = p
    /\ requests' = IF p = "get_access_token" THEN reqs + 1 ELSE reqs

\* `while attempt < max_attempts:` with a as the value of attempt, and what
\* follows the loop when the test fails.
LoopHead(a, reqs, client_id) ==
    IF LoopContinues(a)
    THEN /\ Enter(LoopBody[1], reqs)
         /\ UNCHANGED <<access_tokens, last_write>>
    ELSE /\ pc' = "timeout"
         /\ requests' = reqs
         /\ access_tokens' = Pop(access_tokens, client_id)
         /\ last_write' = [c \in DOMAIN last_write \ {client_id} |-> last_write[c]]

\* The await the task is suspended in has completed without ending the task.
Continue ==
    IF StageOf(pc) < Len(LoopBody)
    THEN /\ Enter(LoopBody[StageOf(pc) + 1], requests)
         /\ UNCHANGED <<attempt, access_tokens, last_write>>
    ELSE /\ attempt' = attempt + 1
         /\ LoopHead(attempt + 1, requests, task_client_id)

\* The coroutine is called and runs to its first await.
fetch_token_async(client_id, provider_url) ==
    /\ ~Running
    /\ task_client_id' = client_id
    /\ task_provider_url' = provider_url
    /\ attempt' = 0
    /\ sleeps' = 0
    /\ errors' = FALSE
    /\ LoopHead(0, 0, client_id)
    /\ UNCHANGED <<inflight, response, fetch, scoring, pr, call>>

\* `await get_access_token(...)` completes with the endpoint's reply.
token_response(reply) ==
    /\ pc = "get_access_token"
    /\ LET r == get_access_token(reply) IN
         IF r.kind = "return" /\ r.token # NoneStr
         THEN /\ access_tokens' = Put(access_tokens, task_client_id,
                                      Session(r.token, "github", task_provider_url))
              /\ last_write' = (task_client_id :>
                                  Session(r.token, "github", task_provider_url)) @@ last_write
              /\ pc' = "returned"
              /\ UNCHANGED <<attempt, requests, errors>>
         ELSE /\ errors' = (errors \/ r.kind = "raise")
              /\ Continue
    /\ UNCHANGED <<task_client_id, task_provider_url, sleeps, inflight, response, fetch, scoring, pr, call>>

\* `await asyncio.sleep(interval)` completes.
sleep_done ==
    /\ pc = "sleep"
    /\ sleeps' = sleeps + 1
    /\ Continue
    /\ UNCHANGED <<task_client_id, task_provider_url, errors, inflight, response, fetch, scoring, pr, call>>

-----------------------------------------------------------------------------
(* login (main.py:210-354) *)

Glpat == <<"g", "l", "p", "a", "t", "-">>

Gloas == <<"g", "l", "o", "a", "s", "-">>

TokenBody == <<"A", "b", "3", "d", "E", "f", "7", "h", "I", "j", "1", "l", "M", "n">>

\* whitespace only: empty once stripped
SecretBlank == <<" ", " ">>

\* 20 characters as sent, 19 once stripped
SecretShort == <<" ">> \o Glpat \o SubSeq(TokenBody, 1, 13)

\* 22 characters as sent, 20 once stripped
SecretGood == <<" ">> \o Glpat \o TokenBody \o <<" ">>

ClientSecrets == {SecretBlank, SecretShort, SecretGood}

ProviderUrls == {NoneStr, <<"https://git.example", "/">>}

ProviderInputs == {"github", "gitlab", "GitLab", "bitbucket", "svn"}

Lower(provider) == IF provider = "GitLab" THEN "gitlab" ELSE provider

LoginRequests ==
    [client_id : ClientIds, client_secret : ClientSecrets,
     provider : ProviderInputs, provider_url : ProviderUrls]

DirectProviders == {"gitlab", "bitbucket"}

InFlightTotal ==
    LET RECURSIVE Sum(_)
        Sum(S) == IF S = {} THEN 0
                  ELSE LET k == CHOOSE x \in S : TRUE IN inflight[k] + Sum(S \ {k})
    IN Sum(DOMAIN inflight)

\* An endpoint returns: seq tells one response from the one before it;
\* fetch_ok records, for a review, whether the provider answered the requests
\* of the changed-file fetch.
Reply(endpoint, client_id, provider, code, status) ==
    [seq |-> 1 - response.seq, endpoint |-> endpoint, client_id |-> client_id,
     provider |-> provider, code |-> code, status |-> status, fetch_ok |-> TRUE]

Evicted(client_id) == [c \in DOMAIN last_write \ {client_id} |-> last_write[c]]

\* get_device_code (auth/github_auth.py:10-39) and the field check of login
\* (main.py:227-229): "ok" is a 200 reply carrying every required field,
\* "incomplete" a 200 reply lacking one, "error" any other reply or no reply.
DeviceCodeOutcomes == {"ok", "incomplete", "error"}

\* main.py:232-241 adds fetch_token_async to a BackgroundTasks object that the
\* handler itself creates; the handler returns a plain dict (243-252), so the
\* object is dropped with the handler's frame.  The framework runs only the
\* tasks of the BackgroundTasks it injected or of the Response it is given:
\* of the tasks added, none is handed over to run.
HandedToFramework(added) == {}

login_github(req, device) ==
    /\ Lower(req.provider) = "github"
    /\ IF device = "ok"
       THEN /\ response' = Reply("login", req.client_id, "github", 200, "pending_authorization")
            /\ IF req.client_id \in HandedToFramework({req.client_id})
               THEN /\ task_client_id' = req.client_id
                    /\ task_provider_url' = req.provider_url
                    /\ attempt' = 0 /\ sleeps' = 0 /\ errors' = FALSE
                    /\ LoopHead(0, 0, req.client_id)
               ELSE UNCHANGED <<taskVars, access_tokens, last_write>>
       ELSE /\ response' = Reply("login", req.client_id, "github", 400, "error")
            /\ UNCHANGED <<taskVars, access_tokens, last_write>>
    /\ UNCHANGED <<inflight, fetch, scoring, pr, call>>

GitlabTokenRejected(token) ==
    \/ token = NoneStr
    \/ IF StartsWith(token, Glpat) \/ StartsWith(token, Gloas)
       THEN Len(token) < MinTokenLen
       ELSE Len(token) < MinTokenLen

GitlabUrl(provider_url) ==
    RStrip(IF provider_url # NoneStr THEN provider_url ELSE <<"https://gitlab.com">>, "/")

BitbucketUrl(provider_url) ==
    IF provider_url # NoneStr THEN provider_url ELSE <<"https://api.bitbucket.org/2.0">>

\* The gitlab branch up to `await client.get_repositories()` (main.py:257-296),
\* or to its end when the format check raises (305-309).
login_gitlab(req) ==
    /\ Lower(req.provider) = "gitlab"
    /\ LET token == Strip(req.client_secret)
           session == Session(token, "gitlab", GitlabUrl(req.provider_url))
       IN IF GitlabTokenRejected(token)
          THEN /\ access_tokens' = Pop(access_tokens, req.client_id)
               /\ last_write' = Evicted(req.client_id)
               /\ response' = Reply("login", req.client_id, "gitlab", 401, "error")
               /\ UNCHANGED inflight
          ELSE /\ InFlightTotal < MaxInFlight
               /\ access_tokens' = Put(access_tokens, req.client_id, session)
               /\ last_write' = (req.client_id :> session) @@ last_write
               /\ inflight' = [inflight EXCEPT ![<<req.client_id, "gitlab">>] = @ + 1]
               /\ UNCHANGED response
    /\ UNCHANGED <<taskVars, fetch, scoring, pr, call>>

\* The bitbucket branch up to `await client.get_repositories()` (main.py:311-327).
login_bitbucket(req) ==
    /\ Lower(req.provider) = "bitbucket"
    /\ InFlightTotal < MaxInFlight
    /\ LET session == Session(req.client_secret, "bitbucket", BitbucketUrl(req.provider_url))
       IN /\ access_tokens' = Put(access_tokens, req.client_id, session)
          /\ last_write' = (req.client_id :> session) @@ last_write
    /\ inflight' = [inflight EXCEPT ![<<req.client_id, "bitbucket">>] = @ + 1]
    /\ UNCHANGED <<taskVars, response, fetch, scoring, pr, call>>

\* main.py:340-345
login_unsupported(req) ==
    /\ Lower(req.provider) \notin {"github", "gitlab", "bitbucket"}
    /\ response' = Reply("login", req.client_id, Lower(req.provider), 400, "error")
    /\ UNCHANGED <<taskVars, access_tokens, last_write, inflight, fetch, scoring, pr, call>>

\* The verification call of a direct-token login returns (main.py:298-304,
\* 329-334) or raises (305-309, 335-339).
login_verified(client_id, provider, ok) ==
    /\ inflight[<<client_id, provider>>] > 0
    /\ inflight' = [inflight EXCEPT ![<<client_id, provider>>] = @ - 1]
    /\ IF ok
       THEN /\ response' = Reply("login", client_id, provider, 200, "authenticated")
            /\ UNCHANGED <<access_tokens, last_write>>
       ELSE /\ access_tokens' = Pop(access_tokens, client_id)
            /\ last_write' = Evicted(client_id)
            /\ response' = Reply("login", client_id, provider, 401, "error")
    /\ UNCHANGED <<taskVars, fetch, scoring, pr, call>>

-----------------------------------------------------------------------------
(* Provider clients: get_pr_files (git/github.py, git/gitlab.py, git/bitbucket.py) *)

Paths == { <<"a", ".", "py">>, <<"lib/b", ".", "JS">>, <<"README", ".", "md">>, <<"Makefile">> }

ChangeStatus == {"added", "modified", "removed", "renamed"}

\* A change request at the provider: its changed paths, each with its status.
ChangeSets ==
    UNION { [P -> ChangeStatus] : P \in {Q \in SUBSET Paths : Cardinality(Q) <= MaxFiles} }

Content(path) == <<"content of">> \o path

\* GET /repos/{repo}/pulls/{n}/files as github.py:30-37 reads it
GitHubFilesData(changes) ==
    { [filename |-> p, status |-> changes[p]] : p \in DOMAIN changes }

\* GET /projects/{id}/merge_requests/{n}/changes as gitlab.py:50-57 reads it
GitLabChanges(changes) ==
    { [new_path |-> p, new_file |-> changes[p] = "added",
       renamed_file |-> changes[p] = "renamed",
       deleted_file |-> changes[p] = "removed"] : p \in DOMAIN changes }

\* GET /repositories/{repo}/pullrequests/{n}/diffstat as bitbucket.py:41-46
\* reads it: a removed file has no new side.
BitbucketDiffstat(changes) ==
    { [status |-> changes[p],
       new_path |-> IF changes[p] = "removed" THEN NoneStr ELSE p,
       old_path |-> IF changes[p] = "added" THEN NoneStr ELSE p] : p \in DOMAIN changes }

\* What a get_pr_files coroutine gives when awaited: the dict, or the error
\* of the first request that _make_request (git/base.py:53-63) cannot return
\* a body for; provider_ok says that the provider answers every request of the
\* call with a body _make_request returns.
Fetched(paths, provider_ok) ==
    IF ~provider_ok
    THEN [kind |-> "raise", files |-> <<>>]
    ELSE [kind |-> "dict", files |-> [p \in paths |-> Content(p)]]

GitHubKeepAll(files_data) == { f.filename : f \in files_data }

GitHubKept(files_data) == { f.filename : f \in {g \in files_data : g.status # "removed"} }

GitLabKept(changes) == { c.new_path : c \in {d \in changes : d.new_file \/ d.renamed_file} }

BitbucketKept(values) == { v.new_path : v \in {w \in values : w.status # "removed"} }

Providers == {"github", "gitlab", "bitbucket"}

get_pr_files(provider, changes, provider_ok) ==
    CASE provider = "github"    -> Fetched(GitHubKept(GitHubFilesData(changes)), provider_ok)
      [] provider = "gitlab"    -> Fetched(GitLabKept(GitLabChanges(changes)), provider_ok)
      [] provider = "bitbucket" -> Fetched(BitbucketKept(BitbucketDiffstat(changes)), provider_ok)

\* Calling an `async def` without awaiting it gives a coroutine object, whatever
\* the coroutine would return.
Coroutine(result) == [kind |-> "coroutine", files |-> <<>>]

-----------------------------------------------------------------------------
(* FeedbackGenerator (feedback.py): the scoring of one analysis record *)

\* Scores are exact numbers in units of 1/Unit of a point: a maintainability
\* index is given to the thousandth of a point and a complexity score is a sum
\* of band values divided by at most MaxFunctions.
Fact(n) == LET RECURSIVE F(_)
               F(k) == IF k <= 1 THEN 1 ELSE k * F(k - 1)
           IN F(n)

Unit == 1000 * Fact(MaxFunctions)

Points(n) == n * Unit

Thousandths(n) == n * Fact(MaxFunctions)

\* dict.get(key, default)
Get(d, key, default) == IF key \in DOMAIN d THEN d[key] ELSE default

Min(a, b) == IF a <= b THEN a ELSE b

Max(a, b) == IF a >= b THEN a ELSE b

SumSeq(s) == LET RECURSIVE Sum(_)
                 Sum(i) == IF i = 0 THEN 0 ELSE s[i] + Sum(i - 1)
             IN Sum(Len(s))

\* round(x, 2), in hundredths, of a number x given in parts of which `per` make
\* one hundredth: to the nearest hundredth, a tie to the even one.
Round2(x, per) ==
    LET q == x \div per
        r == x % per
    IN IF 2 * r > per \/ (2 * r = per /\ q % 2 = 1) THEN q + 1 ELSE q

Categories == {"maintainability", "complexity", "style", "security", "documentation"}

\* feedback.py:38-44, in hundredths
weights ==
    [maintainability |-> 25, complexity |-> 25, style |-> 20, security |-> 20,
     documentation |-> 10]

\* feedback.py:62-65
_calculate_maintainability_score(results) ==
    LET mi_score == Get(Get(results, "metrics", <<>>), "maintainability_index", 0)
    IN Min(Points(100), Max(0, mi_score))

\* feedback.py:76-85
ComplexityBandShifted(complexity) ==
    IF complexity < 5 THEN 100
    ELSE IF complexity < 10 THEN 80
    ELSE IF complexity < 20 THEN 60
    ELSE IF complexity < 30 THEN 40
    ELSE 20

ComplexityBand(complexity) ==
    IF complexity <= 5 THEN 100
    ELSE IF complexity <= 10 THEN 80
    ELSE IF complexity <= 20 THEN 60
    ELSE IF complexity <= 30 THEN 40
    ELSE 20

\* feedback.py:67-87
_calculate_complexity_score(results) ==
    LET functions == Get(Get(results, "complexity", <<>>), "functions", <<>>)
        scores == [i \in DOMAIN functions |-> ComplexityBand(Get(functions[i], "complexity", 0))]
    IN IF functions = <<>>
       THEN Points(100)
       ELSE Points(SumSeq(scores)) \div Len(scores)

\* feedback.py:96-101, 103
LintWeightOfTableOnly(issue) ==
    LET type == Get(issue, "type", "convention")
    IN CASE type = "convention" -> 1
         [] type = "refactor"   -> 2
         [] type = "warning"    -> 3
         [] type = "error"      -> 5
         [] OTHER               -> 0

LintWeight(issue) ==
    LET type == Get(issue, "type", "convention")
    IN CASE type = "convention" -> 1
         [] type = "refactor"   -> 2
         [] type = "warning"    -> 3
         [] type = "error"      -> 5
         [] OTHER               -> 1

\* feedback.py:89-107
_calculate_style_score(results) ==
    LET lint_issues == Get(results, "linting", <<>>)
        total_weight == SumSeq([i \in DOMAIN lint_issues |-> LintWeight(lint_issues[i])])
    IN IF lint_issues = <<>>
       THEN Points(100)
       ELSE Points(Max(0, 100 - (total_weight * 2)))

SecurityUnclamped(results) ==
    LET security_issues == Get(results, "security", <<>>)
    IN IF security_issues = <<>>
       THEN Points(100)
       ELSE Points(100 - (Len(security_issues) * 25))

\* feedback.py:109-117
_calculate_security_score(results) ==
    LET security_issues == Get(results, "security", <<>>)
    IN IF security_issues = <<>>
       THEN Points(100)
       ELSE Points(Max(0, 100 - (Len(security_issues) * 25)))

DocumentationStrictBands(results) ==
    LET raw_metrics == Get(results, "raw_metrics", <<>>)
        sloc == Get(raw_metrics, "sloc", 0)
        comments == Get(raw_metrics, "comments", 0)
    IN IF sloc = 0 THEN Points(100)
       ELSE IF comments * 100 > 20 * sloc THEN Points(100)
       ELSE IF comments * 100 > 15 * sloc THEN Points(80)
       ELSE IF comments * 100 > 10 * sloc THEN Points(60)
       ELSE IF comments * 100 > 5 * sloc THEN Points(40)
       ELSE Points(20)

\* feedback.py:119-138; comment_ratio = (comments / sloc) * 100 is compared
\* with each band edge as the exact ratio.
_calculate_documentation_score(results) ==
    LET raw_metrics == Get(results, "raw_metrics", <<>>)
        sloc == Get(raw_metrics, "sloc", 0)
        comments == Get(raw_metrics, "comments", 0)
    IN IF sloc = 0 THEN Points(100)
       ELSE IF comments * 100 >= 20 * sloc THEN Points(100)
       ELSE IF comments * 100 >= 15 * sloc THEN Points(80)
       ELSE IF comments * 100 >= 10 * sloc THEN Points(60)
       ELSE IF comments * 100 >= 5 * sloc THEN Points(40)
       ELSE Points(20)

GradeShiftedBands(score) ==
    IF score > 90000 THEN "A"
    ELSE IF score > 80000 THEN "B"
    ELSE IF score > 70000 THEN "C"
    ELSE IF score > 60000 THEN "D"
    ELSE "F"

\* feedback.py:140-152, of a score in thousandths of a point
_get_grade(score) ==
    IF score >= 90000 THEN "A"
    ELSE IF score >= 80000 THEN "B"
    ELSE IF score >= 70000 THEN "C"
    ELSE IF score >= 60000 THEN "D"
    ELSE "F"

\* feedback.py:29-35
CategoryScores(results) ==
    [maintainability |-> _calculate_maintainability_score(results),
     complexity      |-> _calculate_complexity_score(results),
     style           |-> _calculate_style_score(results),
     security        |-> _calculate_security_score(results),
     documentation   |-> _calculate_documentation_score(results)]

\* feedback.py:46: sum(score * weights[category]), in parts of which Unit
\* make one hundredth of a point
WeightedSum(scores) ==
    LET RECURSIVE Sum(_)
        Sum(cs) == IF cs = {} THEN 0
                   ELSE LET c == CHOOSE x \in cs : TRUE
                        IN scores[c] * weights[c] + Sum(cs \ {c})
    IN Sum(DOMAIN scores)

\* feedback.py:27-60; overall_score, the breakdown and each contribution are
\* in hundredths of a point.
_calculate_quality_score(results) ==
    LET scores == CategoryScores(results)
        overall_score == WeightedSum(scores)
    IN [overall_score   |-> Round2(overall_score, Unit),
        breakdown       |-> [c \in DOMAIN scores |-> Round2(scores[c], Unit \div 100)],
        category_scores |-> [c \in DOMAIN scores |->
                               [score        |-> scores[c],
                                weight       |-> weights[c],
                                contribution |-> Round2(scores[c] * weights[c], Unit)]]]

\* feedback.py:154-167
_generate_summary(results) ==
    [maintainability_score |-> Get(Get(results, "metrics", <<>>), "maintainability_index", 0),
     code_lines            |-> Get(Get(results, "raw_metrics", <<>>), "sloc", 0),
     comment_lines         |-> Get(Get(results, "raw_metrics", <<>>), "comments", 0),
     issues_count          |-> Len(Get(results, "linting", <<>>)),
     security_issues_count |-> Len(Get(results, "security", <<>>))]

\* feedback.py:220-230: the comment ratio and its status
_analyze_code_quality(results) ==
    LET raw_metrics == Get(results, "raw_metrics", <<>>)
        sloc == Get(raw_metrics, "sloc", 0)
        comments == Get(raw_metrics, "comments", 0)
    IN [comment_ratio        |-> IF sloc > 0 THEN Round2(comments * 10000, sloc) ELSE 0,
        comment_ratio_status |-> IF sloc > 0 /\ comments * 100 >= 20 * sloc
                                 THEN "good" ELSE "needs_improvement"]

\* feedback.py:169-204, by the number of suggestions of each type
_generate_suggestions(results) ==
    LET functions == Get(Get(results, "complexity", <<>>), "functions", <<>>)
        mi_score == Get(Get(results, "metrics", <<>>), "maintainability_index", 0)
    IN [complexity      |-> Cardinality({i \in DOMAIN functions :
                                           Get(functions[i], "complexity", 0) > 10}),
        maintainability |-> IF mi_score < Points(65) THEN 1 ELSE 0,
        style           |-> Len(Get(results, "linting", <<>>))]

\* feedback.py:7-25; the security concerns are one per security issue, the
\* detailed metrics are copies of parts of the record.
generate_feedback(analysis_results) ==
    LET quality_score == _calculate_quality_score(analysis_results)
    IN [summary           |-> _generate_summary(analysis_results),
        suggestions       |-> _generate_suggestions(analysis_results),
        security_concerns |-> Len(Get(analysis_results, "security", <<>>)),
        code_quality      |-> _analyze_code_quality(analysis_results),
        detailed_metrics  |-> [code_metrics        |-> Get(analysis_results, "raw_metrics", <<>>),
                               complexity_analysis |-> Get(analysis_results, "complexity", <<>>),
                               maintainability     |-> Get(analysis_results, "metrics", <<>>)],
        score |-> [overall_score   |-> quality_score.overall_score,
                   breakdown       |-> quality_score.breakdown,
                   grade           |-> _get_grade(quality_score.overall_score * 10),
                   category_scores |-> quality_score.category_scores]]

-----------------------------------------------------------------------------
(* Analysis records: what CodeAnalyzer.analyze_code (analyzer.py:33-53) returns *)

ComplexityValues == {5, 6, 10, 11, 20, 21, 30, 31}

\* sequences over S of length at most n
SeqUpTo(S, n) == UNION { [1..k -> S] : k \in 0..n }

\* analyzer.py:245-263: the functions found, or the error of the visit
ComplexityResults ==
    { [functions |-> f] :
        f \in SeqUpTo({ [complexity |-> c] : c \in ComplexityValues }, MaxFunctions) }
    \cup { [error |-> "invalid syntax"] }

\* analyzer.py:312-326: the maintainability index, or the error of the visit
MetricsResults ==
    { [maintainability_index |-> Thousandths(v)] : v \in {0, 50016, 59600, 64000, 100000} }
    \cup { [error |-> "invalid syntax"] }

\* analyzer.py:368-380
RawMetricsResults ==
    { [sloc |-> s, comments |-> c] : s \in {0, 20, 25}, c \in 0..MaxComments }
    \cup { [error |-> "invalid syntax"] }

LintTypes == {"convention", "refactor", "warning", "error", "info"}

\* analyzer.py:55-67
LintResults == SeqUpTo({ [type |-> t] : t \in LintTypes }, MaxLint)

\* analyzer.py:382-405
SecurityResults == SeqUpTo({ [type |-> "hardcoded_secrets"] }, MaxIssues)

\* analyzer.py:44-52
Analysis(linting, complexity, metrics, raw_metrics, security) ==
    [linting |-> linting, complexity |-> complexity, metrics |-> metrics,
     raw_metrics |-> raw_metrics, security |-> security]

\* Records of files that differ in their functions and their maintainability
FunctionRecords ==
    { Analysis(<<>>, c, m, [sloc |-> 0, comments |-> 0], <<>>) :
        c \in ComplexityResults, m \in MetricsResults }

\* Records of files without functions that differ in everything else
IssueRecords ==
    { Analysis(l, [functions |-> <<>>], m, r, s) :
        l \in LintResults, m \in MetricsResults, r \in RawMetricsResults,
        s \in SecurityResults }

\* Records of files with so many lint errors that the penalty passes 100 points
LintErrorRecords ==
    { Analysis([i \in 1..n |-> [type |-> "error"]], [functions |-> <<>>], m,
               [sloc |-> 0, comments |-> 0], <<>>) :
        n \in {9, 10, 11}, m \in MetricsResults }

\* Records of a file with one function of complexity 12, one hardcoded-secret
\* line and 3 comments in 20 source lines
ScenarioRecords ==
    { Analysis(l, [functions |-> <<[complexity |-> 12]>>], m,
               [sloc |-> 20, comments |-> 3], <<[type |-> "hardcoded_secrets"]>>) :
        l \in LintResults, m \in MetricsResults }

NoScore == [op |-> "", analysis |-> <<>>, feedback |-> <<>>]

\* main.py:468: the feedback of one file's analysis
file_feedback ==
    /\ scoring.op = "analysis"
    /\ scoring' = [scoring EXCEPT !.op = "feedback",
                                  !.feedback = generate_feedback(scoring.analysis)]
    /\ UNCHANGED <<taskVars, access_tokens, last_write, inflight, response, fetch, pr, call>>

-----------------------------------------------------------------------------
(* The change-request-level score (main.py:50-124) *)

\* main.py:113-124, of a score in thousandths of a point
get_grade(score) ==
    IF score >= 90000 THEN "A"
    ELSE IF score >= 80000 THEN "B"
    ELSE IF score >= 70000 THEN "C"
    ELSE IF score >= 60000 THEN "D"
    ELSE "F"

\* main.py:459-464
lang_map(file_ext) ==
    CASE file_ext \in {"py", "pyw"}                    -> "python"
      [] file_ext \in {"js", "jsx", "ts", "tsx"}       -> "javascript"
      [] file_ext = "java"                             -> "java"
      [] file_ext \in {"cpp", "cc", "c", "h", "hpp"}   -> "cpp"
      [] file_ext = "go"                               -> "go"
      [] file_ext = "rb"                               -> "ruby"
      [] file_ext = "php"                              -> "php"
      [] file_ext = "cs"                               -> "csharp"
      [] OTHER                                         -> "generic"

\* main.py:471-476
FileResult(file_path, lang, file_analysis) ==
    [file |-> file_path, language |-> lang, analysis |-> file_analysis,
     feedback |-> generate_feedback(file_analysis)]

\* main.py:97-102, in tenths
pr_weights == [code_quality |-> 3, complexity |-> 2, security |-> 3, style |-> 2]

\* main.py:70-90: what the loop adds to metrics[key] over the results; the
\* "test_coverage" metric is never added to.
PrMetricTotal(analysis_results, key) ==
    SumSeq([i \in DOMAIN analysis_results |->
              IF /\ "feedback" \in DOMAIN analysis_results[i]
                 /\ key \in DOMAIN analysis_results[i].feedback
                 /\ key # "test_coverage"
              THEN Get(analysis_results[i].feedback[key], "score", 0)
              ELSE 0])

\* main.py:50-111; the metrics and the score are in hundredths of a point
calculate_pr_score(analysis_results) ==
    IF analysis_results = <<>>
    THEN [score |-> 0, grade |-> "N/A", metrics |-> <<>>]
    ELSE LET file_count == Len(analysis_results)
             metrics == [m \in {"code_quality", "complexity", "test_coverage",
                                "security", "style"} |->
                           Round2(PrMetricTotal(analysis_results, m), file_count * (Unit \div 100))]
             overall_score ==
                 metrics["code_quality"] * pr_weights["code_quality"]
                 + metrics["complexity"] * pr_weights["complexity"]
                 + metrics["security"] * pr_weights["security"]
                 + metrics["style"] * pr_weights["style"]
         IN [score   |-> Round2(overall_score, 10),
             grade   |-> get_grade(overall_score),
             metrics |-> metrics,
             weights |-> pr_weights]

\* Analyses of the files of one change request
PrAnalyses ==
    { Analysis(<<>>, [functions |-> <<>>], [maintainability_index |-> Thousandths(100000)],
               [sloc |-> 0, comments |-> 0], <<>>),
      Analysis(<<>>, [functions |-> <<[complexity |-> 11]>>],
               [maintainability_index |-> Thousandths(64000)],
               [sloc |-> 20, comments |-> 2], <<>>),
      Analysis(<<[type |-> "warning"]>>, [functions |-> <<[complexity |-> 31]>>],
               [maintainability_index |-> Thousandths(50016)],
               [sloc |-> 25, comments |-> 1],
               <<[type |-> "hardcoded_secrets"], [type |-> "hardcoded_secrets"]>>),
      Analysis(<<>>, [error |-> "invalid syntax"], [error |-> "invalid syntax"],
               [error |-> "invalid syntax"], <<>>) }

\* the path of the i-th file of a change request of source files
PrPath(i) == [k \in 1..i |-> "d/"] \o <<"f", ".", "py">>

\* main.py:481-486: the results of the files whose analysis returned
PrResults ==
    { [i \in DOMAIN a |-> FileResult(PrPath(i), "python", a[i])] :
        a \in SeqUpTo(PrAnalyses, MaxResults) }

GradeScores ==
    {0, 59990, 60000, 69990, 70000, 79990, 80000, 89900, 89990, 90000, 91000, 100000}

NoPr == [op |-> "", analysis_results |-> <<>>, overall_score |-> <<>>]

\* main.py:488
pr_score ==
    /\ pr.op = "results"
    /\ pr' = [pr EXCEPT !.op = "calculate_pr_score",
                        !.overall_score = calculate_pr_score(pr.analysis_results)]
    /\ UNCHANGED <<taskVars, access_tokens, last_write, inflight, response, fetch, scoring, call>>

\* feedback.py:21 and main.py:107: both grade functions, on the same score
grade ==
    /\ pr.op = "overall_score"
    /\ pr' = [pr EXCEPT !.op = "grade",
                        !.overall_score = [score |-> pr.overall_score.score,
                                           grade |-> get_grade(pr.overall_score.score),
                                           feedback_grade |-> _get_grade(pr.overall_score.score)]]
    /\ UNCHANGED <<taskVars, access_tokens, last_write, inflight, response, fetch, scoring, call>>

-----------------------------------------------------------------------------
(* review_pr (main.py:412-505) *)

programming_extensions ==
    {"py", "pyw", "js", "jsx", "ts", "tsx", "java", "cpp", "cc", "c", "h", "hpp",
     "go", "rb", "php", "cs"}

skip_extensions ==
    {"json", "csv", "yml", "yaml", "xml", "ini", "toml", "md", "txt", "png", "jpg",
     "jpeg", "gif", "pdf", "zip", "exe", "dll"}

LowerExt(chunk) == IF chunk = "JS" THEN "js" ELSE chunk

\* main.py:451
FileExt(path) ==
    IF \E i \in DOMAIN path : path[i] = "." THEN LowerExt(path[Len(path)]) ELSE ""

Dispatched(path) ==
    ~(FileExt(path) \notin programming_extensions \/ FileExt(path) \in skip_extensions)

\* analyzer.py:33-53 for a file of the change request. What the analyzers find
\* in a content is not derived from it: every file is taken to hold one
\* function of complexity 6 in 20 source lines with 2 comments, and no issue.
analyze_code(file_path, content, lang) ==
    Analysis(<<>>, [functions |-> <<[complexity |-> 6]>>],
             [maintainability_index |-> Thousandths(64000)],
             [sloc |-> 20, comments |-> 2], <<>>)

None == <<>>

\* main.py:449-479; raises holds the paths for which analyze_code or
\* generate_feedback raises, which 477-479 turn into None.
analyze_file(file_path, content, raises) ==
    IF ~Dispatched(file_path)
    THEN None
    ELSE IF file_path \in raises
    THEN None
    ELSE FileResult(file_path, lang_map(FileExt(file_path)),
                    analyze_code(file_path, content, lang_map(FileExt(file_path))))

\* files.items() (main.py:482), in the order of the dict
Items(files) ==
    LET RECURSIVE Keys(_)
        Keys(ps) == IF ps = {} THEN <<>>
                    ELSE LET p == CHOOSE x \in ps : TRUE
                         IN <<p>> \o Keys(ps \ {p})
    IN Keys(DOMAIN files)

\* main.py:482-486: asyncio.gather gives the tasks' results in the order of
\* the tasks, whatever the order in which they complete; the None are dropped.
AnalysisResults(files, raises) ==
    LET items == Items(files)
        results == [i \in DOMAIN items |-> analyze_file(items[i], files[items[i]], raises)]
    IN SelectSeq(results, LAMBDA r : r # None)

NoReview == [code |-> 0, files_analyzed |-> 0, file_reviews |-> {}, overall_score |-> <<>>]

\* The body of review_pr from its try (main.py:421-505) for a stored session:
\* line 431 calls client.get_pr_files without awaiting it, so `files` is a
\* coroutine object; len(files) at 432 raises TypeError, which 503-505 turn
\* into a 400.
ReviewBody(session, changes, provider_ok, raises) ==
    LET files == Coroutine(get_pr_files(session.provider, changes, provider_ok))
    IN IF files.kind # "dict"
       THEN [NoReview EXCEPT !.code = 400]
       ELSE \* 449-498
            LET analysis_results == AnalysisResults(files.files, raises)
            IN [code |-> 200, files_analyzed |-> Len(analysis_results),
                file_reviews |-> { analysis_results[i].file : i \in DOMAIN analysis_results },
                overall_score |-> calculate_pr_score(analysis_results)]

review_pr(client_id, changes, provider_ok, raises) ==
    /\ IF client_id \notin DOMAIN access_tokens
       THEN response' = [Reply("review", client_id, "", 401, "error")
                            EXCEPT !.fetch_ok = provider_ok]
       ELSE LET r == ReviewBody(access_tokens[client_id], changes, provider_ok, raises)
            IN response' = [Reply("review", client_id, access_tokens[client_id].provider,
                                  r.code, IF r.code = 200 THEN "review" ELSE "error")
                               EXCEPT !.fetch_ok = provider_ok]
    /\ UNCHANGED <<taskVars, access_tokens, last_write, inflight, fetch, scoring, pr, call>>

-----------------------------------------------------------------------------
(* Calls made on a provider client on its own *)

client_get_pr_files(provider, changes, provider_ok) ==
    /\ fetch' = [op |-> "get_pr_files", provider |-> provider, changes |-> changes,
                 fetch_ok |-> provider_ok, raises |-> {},
                 returned |-> get_pr_files(provider, changes, provider_ok),
                 review |-> NoReview]
    /\ UNCHANGED <<taskVars, access_tokens, last_write, inflight, response, scoring, pr, call>>

\* review_pr for a session of the given provider, seen from the change request
client_review(provider, changes, provider_ok, raises) ==
    /\ fetch' = [op |-> "review_pr", provider |-> provider, changes |-> changes,
                 fetch_ok |-> provider_ok, raises |-> raises,
                 returned |-> Coroutine(get_pr_files(provider, changes, provider_ok)),
                 review |-> ReviewBody(Session(GithubToken, provider, NoneStr),
                                       changes, provider_ok, raises)]
    /\ UNCHANGED <<taskVars, access_tokens, last_write, inflight, response, scoring, pr, call>>

-----------------------------------------------------------------------------
(* GitProviderDetector (git/provider_detector.py) *)

Letters ==
    {"a", "b", "c", "d", "e", "f", "g", "h", "i", "j", "k", "l", "m", "n", "o", "p", "q",
     "r", "s", "t", "u", "v", "w", "x", "y", "z", "A", "B", "C", "D", "E", "F", "G", "H",
     "I", "J", "K", "L", "M", "N", "O", "P", "Q", "R", "S", "T", "U", "V", "W", "X", "Y", "Z"}

Digits == {"0", "1", "2", "3", "4", "5", "6", "7", "8", "9"}

\* the whole string is n characters of the class
AllOf(class, n, s) == Len(s) = n /\ \A i \in DOMAIN s : s[i] \in class

\* provider_detector.py:51  ^[a-zA-Z0-9_-]{20}$
GitlabTokenShape(token) == AllOf(Letters \cup Digits \cup {"_", "-"}, 20, token)

\* provider_detector.py:55  ^gh[ps]_[A-Za-z0-9_]{36}$
GithubTokenShape(token) ==
    /\ Len(token) = 40
    /\ token[1] = "g" /\ token[2] = "h" /\ token[3] \in {"p", "s"} /\ token[4] = "_"
    /\ AllOf(Letters \cup Digits \cup {"_"}, 36, SubSeq(token, 5, 40))

BitbucketPrefix == <<"B", "I", "T", "B", "U", "C", "K", "E", "T", "_">>

\* provider_detector.py:59
BitbucketTokenShape(token) == StartsWith(token, BitbucketPrefix)

\* provider_detector.py:45-62
detect_from_token(token) ==
    IF GitlabTokenShape(token) THEN "gitlab"
    ELSE IF GithubTokenShape(token) THEN "github"
    ELSE IF BitbucketTokenShape(token) THEN "bitbucket"
    ELSE "unknown"

\* Tokens: a prefix followed by one character repeated
TokenPrefixes ==
    { <<>>, <<"g", "h", "p", "_">>, <<"g", "h", "s", "_">>, <<"g", "h", "x", "_">>,
      BitbucketPrefix, Glpat }

DetectTokens ==
    { prefix \o [i \in 1..n |-> ch] :
        prefix \in TokenPrefixes, n \in {5, 10, 14, 16, 20, 36}, ch \in {"a", "7", "_", "-", "!"} }

\* A URL is a scheme and a host; a host is its labels, the parts between the
\* dots, and a label is a sequence of words. A URL with no scheme has no
\* netloc for urlparse: all of it is path.
HostLower(word) == IF word = "GitHub" THEN "github" ELSE word

\* provider_detector.py:17-18
Hostname(url) ==
    IF url.scheme = ""
    THEN <<>>
    ELSE [i \in DOMAIN url.host |-> [j \in DOMAIN url.host[i] |-> HostLower(url.host[i][j])]]

\* keyword in hostname, for a keyword that is one of the words
InHostname(keyword, hostname) ==
    \E i \in DOMAIN hostname : \E j \in DOMAIN hostname[i] : hostname[i][j] = keyword

\* '.gitlab.' in hostname
DotGitlabDot(hostname) ==
    \E i \in DOMAIN hostname : i > 1 /\ i < Len(hostname) /\ hostname[i] = <<"gitlab">>

Host(labels) == [i \in DOMAIN labels |-> <<labels[i]>>]

SelfHosted(hostname) == <<"https://", hostname>>

\* provider_detector.py:10-43
detect_from_url(url) ==
    LET hostname == Hostname(url)
    IN IF hostname \in {Host(<<"github", "com">>), Host(<<"www", "github", "com">>)}
       THEN <<"github", NoneStr>>
       ELSE IF hostname \in {Host(<<"gitlab", "com">>), Host(<<"www", "gitlab", "com">>)}
       THEN <<"gitlab", NoneStr>>
       ELSE IF DotGitlabDot(hostname)
       THEN <<"gitlab", SelfHosted(hostname)>>
       ELSE IF hostname \in {Host(<<"bitbucket", "org">>), Host(<<"www", "bitbucket", "org">>)}
       THEN <<"bitbucket", NoneStr>>
       ELSE IF \E keyword \in {"gitlab", "github", "bitbucket"} : InHostname(keyword, hostname)
       THEN IF InHostname("gitlab", hostname) THEN <<"gitlab", SelfHosted(hostname)>>
            ELSE IF InHostname("github", hostname) THEN <<"github", SelfHosted(hostname)>>
            ELSE <<"bitbucket", SelfHosted(hostname)>>
       ELSE <<"unknown", NoneStr>>

DetectHosts ==
    { Host(<<"github", "com">>), Host(<<"www", "github", "com">>), Host(<<"GitHub", "com">>),
      Host(<<"gitlab", "com">>), Host(<<"www", "gitlab", "com">>),
      Host(<<"bitbucket", "org">>), Host(<<"www", "bitbucket", "org">>),
      Host(<<"code", "gitlab", "example", "com">>), Host(<<"gitlab", "example", "com">>),
      Host(<<"github", "example", "com">>), Host(<<"bitbucket", "example", "com">>),
      Host(<<"git", "example", "com">>),
      Host(<<"github", "gitlab", "example", "com">>),
      Host(<<"bitbucket", "github", "example", "com">>),
      << <<"my", "gitlab">>, <<"example">>, <<"com">> >>,
      << <<"github", "-", "bitbucket">>, <<"example">>, <<"com">> >> }

DetectUrls == [scheme : {"https", ""}, host : DetectHosts]

NoCall == [op |-> "", input |-> <<>>, output |-> <<>>]

Called(op, input) == [op |-> op, input |-> input, output |-> <<>>]

\* the function named by call.op returns
Returns(op, output) ==
    /\ call.op = op
    /\ call.output = <<>>
    /\ call' = [call EXCEPT !.output = <<output>>]
    /\ UNCHANGED <<taskVars, access_tokens, last_write, inflight, response, fetch, scoring, pr>>

-----------------------------------------------------------------------------
(* The provider clients (git/github.py, git/gitlab.py, git/bitbucket.py) *)

MaxPulls == 2

\* the states a provider's API gives a pull request
NativeStates(provider) ==
    CASE provider = "github"    -> {"open", "closed"}
      [] provider = "gitlab"    -> {"opened", "merged", "closed", "locked"}
      [] provider = "bitbucket" -> {"OPEN", "MERGED", "DECLINED", "SUPERSEDED"}

\* The answers of a provider to the listing request, each item with the
\* fields of that provider that get_pull_requests reads
PullsResponses(provider) ==
    SeqUpTo({ CASE provider = "github" ->
                     [number |-> 7, title |-> "t", state |-> s, html_url |-> "u"]
                [] provider = "gitlab" ->
                     [iid |-> 7, title |-> "t", state |-> s, web_url |-> "u"]
                [] provider = "bitbucket" ->
                     [id |-> 7, title |-> "t", state |-> s, links |-> [html |-> [href |-> "u"]]]
              : s \in NativeStates(provider) }, MaxPulls)

\* github.py:22-25, gitlab.py:32-44, bitbucket.py:23-34
get_pull_requests(provider, answer) ==
    CASE provider = "github" -> answer
      [] provider = "gitlab" ->
           [i \in DOMAIN answer |->
              [number |-> answer[i].iid, title |-> answer[i].title,
               state |-> answer[i].state, html_url |-> answer[i].web_url]]
      [] provider = "bitbucket" ->
           [i \in DOMAIN answer |->
              [number |-> answer[i].id, title |-> answer[i].title,
               state |-> IF answer[i].state = "OPEN" THEN "open" ELSE "closed",
               html_url |-> answer[i].links.html.href]]

MaxInline == 2

\* the sequences of a sequence of sequences, one after the other
Flatten(ss) == LET RECURSIVE F(_)
                   F(i) == IF i = 0 THEN <<>> ELSE F(i - 1) \o ss[i]
               IN F(Len(ss))

\* the comments of a review: path, line and body
ReviewComments ==
    SeqUpTo({[path |-> "a.py", line |-> line, body |-> "b"] : line \in {1, 2}}, MaxInline)

\* github.py:41-52 and 66-70, gitlab.py:61-88 and 112-128, bitbucket.py:50-71:
\* the requests the client makes, in order
create_review(provider, comments, event, body) ==
    CASE provider = "github" ->
           << [method |-> "GET", url |-> "pulls/{pr_number}"],
              [method |-> "POST", url |-> "pulls/{pr_number}/reviews",
               json |-> [commit_id |-> "sha", body |-> body, event |-> event,
                         comments |-> comments]] >>
      [] provider = "gitlab" ->
           << [method |-> "POST", url |-> "merge_requests/{pr_number}/notes",
               json |-> [body |-> body]] >>
           \o Flatten([i \in DOMAIN comments |->
                 << [method |-> "GET", url |-> "merge_requests/{pr_number}"],
                    [method |-> "GET", url |-> "merge_requests/{pr_number}"],
                    [method |-> "GET", url |-> "merge_requests/{pr_number}"],
                    [method |-> "POST", url |-> "merge_requests/{pr_number}/discussions",
                     json |-> [body |-> comments[i].body,
                               position |-> [base_sha |-> "base", start_sha |-> "base",
                                             head_sha |-> "head", position_type |-> "text",
                                             new_path |-> comments[i].path,
                                             new_line |-> comments[i].line]]] >>])
      [] provider = "bitbucket" ->
           << [method |-> "POST", url |-> "pullrequests/{pr_number}/comments",
               json |-> [content |-> [raw |-> body]]] >>
           \o [i \in DOMAIN comments |->
                 [method |-> "POST", url |-> "pullrequests/{pr_number}/comments",
                  json |-> [content |-> [raw |-> comments[i].body],
                            inline |-> [path |-> comments[i].path,
                                        to |-> comments[i].line]]]]

\* the issues of a review that has them (github_review.py:52, 93)
IssuesOf(review) ==
    IF "feedback" \in DOMAIN review /\ "issues" \in DOMAIN review.feedback
    THEN review.feedback.issues
    ELSE <<>>

\* github_review.py:84-115: the header with the totals, then the files that have issues
generate_review_summary(file_reviews) ==
    LET critical(review) ==
            Len(SelectSeq(IssuesOf(review), LAMBDA i : Get(i, "severity", "") = "critical"))
        total_issues == SumSeq([r \in DOMAIN file_reviews |-> Len(IssuesOf(file_reviews[r]))])
        critical_issues == SumSeq([r \in DOMAIN file_reviews |-> critical(file_reviews[r])])
        files == [r \in DOMAIN SelectSeq(file_reviews, LAMBDA x : IssuesOf(x) # <<>>) |->
                    LET review == SelectSeq(file_reviews, LAMBDA x : IssuesOf(x) # <<>>)[r]
                    IN [file |-> review.file, issues |-> Len(IssuesOf(review)),
                        critical |-> critical(review)]]
    IN << IF total_issues > 0
          THEN [total |-> total_issues, critical |-> critical_issues]
          ELSE "No issues found! Great job!" >> \o files

\* github_review.py:44-82: the requests made
post_review_comments(provider, file_reviews) ==
    LET comments ==
            Flatten([r \in DOMAIN file_reviews |->
               LET located == SelectSeq(IssuesOf(file_reviews[r]),
                                        LAMBDA i : Get(i, "line_number", 0) # 0)
               IN [k \in DOMAIN located |->
                     [path |-> file_reviews[r].file,
                      line |-> located[k].line_number,
                      body |-> <<located[k].type, located[k].message,
                                 Get(located[k], "suggestion", "No suggestion available")>>]]])
    IN IF comments # <<>>
       THEN create_review(provider, comments, "COMMENT",
                          <<"## PR Review Results">> \o generate_review_summary(file_reviews))
       ELSE <<>>

\* Reviews of files: with no feedback, with feedback that lists no issues, and
\* with issues that have a line number or none
FileReviewRecords ==
    LET located == [type |-> "warning", message |-> "m", line_number |-> 3,
                    severity |-> "critical"]
        general == [type |-> "info", message |-> "m"]
    IN SeqUpTo({ [file |-> "a.py"],
                 [file |-> "a.py", feedback |-> [summary |-> "s"]] }
               \cup { [file |-> "a.py", feedback |-> [issues |-> issues]] :
                        issues \in {<<>>, <<located>>, <<general>>, <<general, located>>} },
               MaxInline)

-----------------------------------------------------------------------------
(* The listing endpoints get_repos and get_prs (main.py:357-411) *)

\* main.py:395-411. With a Session for the id, the handler builds the client
\* from it and awaits get_pull_requests: one request bearing the Session's
\* token. The items returned are dicts, so `pr.number` raises on the first
\* of them: 200 for an empty list, 400 otherwise and when the request fails.
get_prs(client_id, provider_ok, answer) ==
    /\ IF client_id \notin DOMAIN access_tokens
       THEN response' = Reply("prs", client_id, "", 401, "error")
       ELSE LET token_info == access_tokens[client_id]
            IN /\ answer \in PullsResponses(token_info.provider)
               /\ LET prs == get_pull_requests(token_info.provider, answer)
                  IN response' = IF provider_ok /\ prs = <<>>
                                 THEN Reply("prs", client_id, token_info.provider, 200,
                                            "pull_requests")
                                 ELSE Reply("prs", client_id, token_info.provider, 400, "error")
    /\ UNCHANGED <<taskVars, access_tokens, last_write, inflight, fetch, scoring, pr, call>>

\* main.py:357-393. With a Session for the id, the handler builds the client
\* from it and awaits get_repositories: one request bearing the Session's
\* token. The repositories are dicts, so `repo.full_name` raises on the first
\* of them: 200 for no repository, 400 otherwise and when the request fails.
get_repos(client_id, provider_ok, repos) ==
    /\ IF client_id \notin DOMAIN access_tokens
       THEN response' = Reply("repos", client_id, "", 401, "error")
       ELSE LET token_info == access_tokens[client_id]
            IN response' = IF provider_ok /\ repos = <<>>
                           THEN Reply("repos", client_id, token_info.provider, 200,
                                      "repositories")
                           ELSE Reply("repos", client_id, token_info.provider, 400, "error")
    /\ UNCHANGED <<taskVars, access_tokens, last_write, inflight, fetch, scoring, pr, call>>

-----------------------------------------------------------------------------
(* CodeAnalyzer._run_linter and the linters (analyzer.py) *)

MaxLines == 2

\* A content is its lines; a line is what _analyze_generic looks at: whether
\* it is longer than 100 characters once stripped, and whether it holds TODO
\* or FIXME.
Contents == SeqUpTo([long : BOOLEAN, todo : BOOLEAN], MaxLines)

\* analyzer.py:69-92
_analyze_generic(content) ==
    Flatten([i \in DOMAIN content |->
       (IF content[i].long
        THEN <<[line |-> i, message |-> "Line too long (exceeds 100 characters)",
                symbol |-> "line-length", type |-> "convention"]>>
        ELSE <<>>)
       \o (IF content[i].todo
           THEN <<[line |-> i, message |-> "Found TODO/FIXME comment",
                   symbol |-> "todo-comment", type |-> "info"]>>
           ELSE <<>>)])

\* analyzer.py:13-31: the function of each key of the table
language_linters ==
    [lang \in {"py"} |-> "_run_pylint"]
    @@ [lang \in {"js", "jsx", "ts", "tsx"} |-> "_run_eslint"]
    @@ [lang \in {"java"} |-> "_run_checkstyle"]
    @@ [lang \in {"cpp", "hpp", "c", "h", "cc"} |-> "_run_cppcheck"]
    @@ [lang \in {"go"} |-> "_run_golint"]
    @@ [lang \in {"rb"} |-> "_run_rubocop"]
    @@ [lang \in {"php"} |-> "_run_phpcs"]
    @@ [lang \in {"cs"} |-> "_run_dotnetformat"]
    @@ [lang \in {"generic"} |-> "_analyze_generic"]

\* analyzer.py:62-67, 108-113
ErrorMarker == <<[line |-> "?", message |-> "Error running linter", symbol |-> "error",
                 type |-> "error"]>>

\* analyzer.py:94-243: a function of the table called with the path of the
\* file. It returns a value or raises. env.tool tells whether the external
\* tool cannot be started ("missing": subprocess.run raises), prints nothing
\* ("silent") or prints its findings ("reports"); env.on_disk tells whether
\* file_path names a file of the machine, which then holds the content.
\* _run_pylint answers a tool that cannot be started with the error marker;
\* the others read the file again for the generic analyzer, and that raises
\* if there is no such file. A silent tool gives [] in _run_pylint,
\* _run_golint and _run_dotnetformat and None in the others.
Linter(name, file_path, content, env) ==
    LET returned(value) == [raised |-> FALSE, value |-> value]
        found == <<[line |-> 1, message |-> "m", symbol |-> name, type |-> "warning"]>>
        fallback == IF env.on_disk
                    THEN returned(_analyze_generic(content))
                    ELSE [raised |-> TRUE, value |-> None]
        ran(silent) == IF env.tool = "silent" THEN returned(silent) ELSE returned(found)
    IN IF name = "_analyze_generic" THEN returned(_analyze_generic(<<file_path>>))
       ELSE IF name = "_run_pylint"
       THEN IF env.tool = "missing" THEN returned(ErrorMarker) ELSE ran(<<>>)
       ELSE IF env.tool = "missing" THEN fallback
       ELSE IF name \in {"_run_golint", "_run_dotnetformat"} THEN ran(<<>>)
       ELSE ran(None)

\* analyzer.py:55-67
_run_linter(file_path, content, lang, env) ==
    IF lang \in DOMAIN language_linters
    THEN LET call_linter == Linter(language_linters[lang], file_path, content, env)
         IN IF call_linter.raised THEN ErrorMarker ELSE call_linter.value
    ELSE _analyze_generic(content)

\* The languages: keys of the table (main.py's lang_map gives java, cpp, go
\* and php), and names that are no key (python, javascript, ruby, rust)
LinterCalls ==
    [file_path : {[long |-> FALSE, todo |-> FALSE], [long |-> FALSE, todo |-> TRUE]},
     content : Contents,
     lang : {"py", "js", "java", "cpp", "go", "rb", "php", "cs", "generic",
             "python", "javascript", "ruby", "rust"},
     env : [tool : {"missing", "silent", "reports"}, on_disk : BOOLEAN]]

-----------------------------------------------------------------------------
(* Specifications *)

NoFetch ==
    [op |-> "", provider |-> "", changes |-> <<>>, fetch_ok |-> TRUE, raises |-> {},
     returned |-> [kind |-> "", files |-> <<>>], review |-> NoReview]

\* no session, no task, no login in flight, nothing answered yet
InitServer ==
    /\ access_tokens = <<>>
    /\ last_write = <<>>
    /\ pc = "idle"
    /\ task_client_id = ""
    /\ task_provider_url = NoneStr
    /\ attempt = 0
    /\ requests = 0
    /\ sleeps = 0
    /\ errors = FALSE
    /\ inflight = [k \in ClientIds \X DirectProviders |-> 0]
    /\ response = [seq |-> 0, endpoint |-> "", client_id |-> "", provider |-> "",
                   code |-> 0, status |-> "", fetch_ok |-> TRUE]

Init ==
    /\ InitServer
    /\ fetch = NoFetch
    /\ scoring = NoScore
    /\ pr = NoPr
    /\ call = NoCall

Login ==
    \/ \E req \in LoginRequests, device \in DeviceCodeOutcomes : login_github(req, device)
    \/ \E req \in LoginRequests : login_gitlab(req)
    \/ \E req \in LoginRequests : login_bitbucket(req)
    \/ \E req \in LoginRequests : login_unsupported(req)
    \/ \E c \in ClientIds, p \in DirectProviders, ok \in BOOLEAN : login_verified(c, p, ok)

Review ==
    \E c \in ClientIds, changes \in ChangeSets, ok \in BOOLEAN :
       \E raises \in SUBSET DOMAIN changes : review_pr(c, changes, ok, raises)

Poll ==
    \/ \E c \in ClientIds, url \in ProviderUrls : fetch_token_async(c, url)
    \/ \E reply \in TokenReplies : token_response(reply)
    \/ sleep_done

Listing ==
    \/ \E c \in ClientIds, ok \in BOOLEAN :
          \E answer \in UNION { PullsResponses(p) : p \in Providers } : get_prs(c, ok, answer)
    \/ \E c \in ClientIds, ok \in BOOLEAN :
          \E repos \in {<<>>, <<[name |-> "r", full_name |-> "o/r"]>>} : get_repos(c, ok, repos)

\* The application as served: the endpoints.
Next == Login \/ Review \/ Listing

Spec == Init /\ [][Next]_vars

\* fetch_token_async called on its own, next to the login endpoint.
NextPoll == Poll \/ Login

SpecPoll == Init /\ [][NextPoll]_vars

\* The provider clients called on their own.
NextFiles ==
    \/ \E p \in Providers, changes \in ChangeSets, ok \in BOOLEAN :
          client_get_pr_files(p, changes, ok)
    \/ \E p \in Providers, changes \in ChangeSets, ok \in BOOLEAN :
          client_review(p, changes, ok, {})

SpecFiles == Init /\ [][NextFiles]_vars

\* review_pr on a change request some of whose files' analyses raise.
InitReview ==
    /\ InitServer
    /\ \E p \in Providers, changes \in ChangeSets, ok \in BOOLEAN :
          \E raises \in SUBSET DOMAIN changes :
             fetch = [NoFetch EXCEPT !.op = "request", !.provider = p, !.changes = changes,
                                     !.fetch_ok = ok, !.raises = raises]
    /\ scoring = NoScore
    /\ pr = NoPr
    /\ call = NoCall

NextReview ==
    /\ fetch.op = "request"
    /\ client_review(fetch.provider, fetch.changes, fetch.fetch_ok, fetch.raises)

SpecReview == InitReview /\ [][NextReview]_vars

\* The scoring functions called on their own: generate_feedback on an analysis
\* record, calculate_pr_score on the results of a change request's files, and
\* the grade functions on a score in thousandths of a point.
InitScore ==
    /\ InitServer
    /\ fetch = NoFetch
    /\ call = NoCall
    /\ \/ /\ \E a \in FunctionRecords :
                scoring = [NoScore EXCEPT !.op = "analysis", !.analysis = a]
          /\ pr = NoPr
       \/ /\ \E a \in IssueRecords :
                scoring = [NoScore EXCEPT !.op = "analysis", !.analysis = a]
          /\ pr = NoPr
       \/ /\ \E a \in LintErrorRecords :
                scoring = [NoScore EXCEPT !.op = "analysis", !.analysis = a]
          /\ pr = NoPr
       \/ /\ \E a \in ScenarioRecords :
                scoring = [NoScore EXCEPT !.op = "analysis", !.analysis = a]
          /\ pr = NoPr
       \/ /\ scoring = NoScore
          /\ \E r \in PrResults :
                pr = [NoPr EXCEPT !.op = "results", !.analysis_results = r]
       \/ /\ scoring = NoScore
          /\ \E s \in GradeScores :
                pr = [NoPr EXCEPT !.op = "overall_score", !.overall_score = [score |-> s]]

NextScore ==
    \/ file_feedback
    \/ pr_score
    \/ grade

SpecScore == InitScore /\ [][NextScore]_vars

\* Functions of the provider layer and of the analyzer called on their own
InitCalls ==
    /\ InitServer
    /\ fetch = NoFetch
    /\ scoring = NoScore
    /\ pr = NoPr
    /\ \/ \E token \in DetectTokens : call = Called("detect_from_token", token)
       \/ \E url \in DetectUrls : call = Called("detect_from_url", url)
       \/ \E provider \in Providers : \E answer \in PullsResponses(provider) :
             call = Called("get_pull_requests", [provider |-> provider, answer |-> answer])
       \/ \E provider \in Providers : \E comments \in ReviewComments :
             call = Called("create_review", [provider |-> provider, comments |-> comments])
       \/ \E provider \in Providers : \E file_reviews \in FileReviewRecords :
             call = Called("post_review_comments",
                           [provider |-> provider, file_reviews |-> file_reviews])
       \/ \E linter_call \in LinterCalls : call = Called("_run_linter", linter_call)

NextCalls ==
    \/ Returns("detect_from_token", detect_from_token(call.input))
    \/ Returns("detect_from_url", detect_from_url(call.input))
    \/ Returns("get_pull_requests",
               get_pull_requests(call.input.provider, call.input.answer))
    \/ Returns("create_review",
               create_review(call.input.provider, call.input.comments, "COMMENT", "summary"))
    \/ Returns("post_review_comments",
               post_review_comments(call.input.provider, call.input.file_reviews))
    \/ Returns("_run_linter",
               _run_linter(call.input.file_path, call.input.content, call.input.lang,
                           call.input.env))

SpecCalls == InitCalls /\ [][NextCalls]_vars

-----------------------------------------------------------------------------
(* Properties *)

TaskEnds == Running /\ ~Running'

NewResponse == response' # response

RemovedPaths(changes) == {p \in DOMAIN changes : changes[p] = "removed"}

\* C1: when every token request is answered "still pending", the polling task
\* stops only once it has issued exactly 30 token requests, and at the step at
\* which it stops the store holds no Session for its session id.
C1_TimeoutAfterThirtyRequests ==
    [][(TaskEnds /\ ~errors' /\ pc' # "returned")
          => (requests' = 30 /\ task_client_id \notin DOMAIN access_tokens')]_vars

C1_Witness ==
    /\ pc = "timeout" /\ ~errors /\ requests = 30 /\ sleeps = 30
    /\ task_client_id \notin DOMAIN access_tokens

\* C2 as stated: every round sleeps before it requests, so a task that is
\* answered "still pending" three times and gets the token from its 4th request
\* has stored its Session only after 4 completed interval sleeps.
C2_SleepsBeforeRequesting ==
    (pc = "returned" /\ ~errors /\ requests = 4) => sleeps >= 4

\* C2 as amended: every round requests before it sleeps, so the n-th token
\* request follows exactly n-1 completed sleeps; a task that is answered "still
\* pending" three times and gets the token from its 4th request stores its
\* Session after exactly 3 completed interval sleeps, and nothing before.
C2_RequestsBeforeSleeping ==
    /\ (Running \/ pc = "returned") => sleeps = requests - 1
    /\ (pc = "returned" /\ ~errors /\ requests = 4)
          => sleeps = 3

C2_Witness ==
    /\ pc = "returned" /\ ~errors /\ requests = 4 /\ sleeps = 3
    /\ task_client_id \in DOMAIN access_tokens
    /\ access_tokens[task_client_id].token = GithubToken

\* C3: once the token endpoint has answered with an error that is not "still
\* pending", the polling task issues no further token request and never stores
\* a Session.
C3_StopsOnError ==
    [][(Running /\ errors) => (requests' = requests /\ pc' # "returned")]_vars

\* C4: once a handshake login has returned pending_authorization for a session
\* id, a polling task for that session id is running in the background.
C4_PollingFollowsPending ==
    (response.endpoint = "login" /\ response.status = "pending_authorization")
        => (pc # "idle" /\ task_client_id = response.client_id)

\* C5: a gitlab or bitbucket login that ends in failure answers 401, and at the
\* step at which it returns the store holds no Session for its session id.
C5_FailedDirectLoginLeavesNoSession ==
    [][(/\ NewResponse
        /\ response'.endpoint = "login"
        /\ response'.provider \in DirectProviders
        /\ response'.status # "authenticated")
          => (/\ response'.code = 401
              /\ response'.client_id \notin DOMAIN access_tokens')]_vars

C5_Witness ==
    /\ response.endpoint = "login" /\ response.provider = "gitlab"
    /\ response.code = 401
    /\ response.client_id \notin DOMAIN access_tokens
    /\ inflight[<<response.client_id, "bitbucket">>] = 0

\* C6 as stated: a polling task that ends without a token leaves the session
\* store as it was just before it ended, so a Session that another
\* authentication deposited for the same id meanwhile is still there.
C6_FailedTaskLeavesStoreAlone ==
    [][(TaskEnds /\ pc' # "returned") => access_tokens' = access_tokens]_vars

\* C6 as amended: a polling task that ends without a token writes nothing but
\* evicts the entry of its own session id, whoever deposited it: when it ends
\* the store is what it was, less that entry.
C6_FailedTaskEvictsItsId ==
    [][(TaskEnds /\ pc' # "returned")
          => access_tokens' = [c \in DOMAIN access_tokens \ {task_client_id}
                                 |-> access_tokens[c]]]_vars

\* the task has timed out after a direct-token authentication for the same id
\* had succeeded, and the id has no entry
C6_Witness ==
    /\ pc = "timeout"
    /\ response.status = "authenticated" /\ response.client_id = task_client_id
    /\ \A k \in DOMAIN inflight : inflight[k] = 0
    /\ task_client_id \notin DOMAIN access_tokens

\* C7: the store entry of a session id is the record written by the store
\* operation that happened last for that id, whichever authentication made it.
C7_LastWriteWins ==
    /\ DOMAIN access_tokens \subseteq ClientIds
    /\ access_tokens = last_write

\* the polling task has deposited its Session, and a direct-token
\* authentication for the same id that wrote later and succeeded has replaced it
C7_Witness ==
    /\ pc = "returned"
    /\ response.status = "authenticated" /\ response.client_id = task_client_id
    /\ task_client_id \in DOMAIN access_tokens
    /\ access_tokens[task_client_id].provider = response.provider

\* C8: whichever the provider client, no removed file is a key of what
\* get_pr_files returns, nor an entry of the file_reviews of a review.
C8_RemovedFilesExcluded ==
    /\ fetch.returned.kind = "dict"
          => DOMAIN fetch.returned.files \cap RemovedPaths(fetch.changes) = {}
    /\ fetch.review.file_reviews \cap RemovedPaths(fetch.changes) = {}

C8_Witness ==
    /\ fetch.op = "get_pr_files" /\ fetch.returned.kind = "dict"
    /\ RemovedPaths(fetch.changes) # {}
    /\ DOMAIN fetch.returned.files # {}

\* C9: whichever the provider client, the keys of what get_pr_files returns are
\* exactly the changed paths whose status is not removed.
C9_EveryOtherFileReturned ==
    (fetch.op = "get_pr_files" /\ fetch.returned.kind = "dict")
        => DOMAIN fetch.returned.files = DOMAIN fetch.changes \ RemovedPaths(fetch.changes)

\* C10: a review for a session id that has a Session, of a change request
\* whose changed-file fetch the provider answers, returns a review result.
C10_ReviewReturnsResult ==
    [][(/\ NewResponse
        /\ response'.endpoint = "review"
        /\ response'.fetch_ok
        /\ response'.client_id \in DOMAIN access_tokens)
          => (response'.code = 200 /\ response'.status = "review")]_vars

\* the sum of f over its domain
SumOver(f) ==
    LET RECURSIVE Sum(_)
        Sum(ks) == IF ks = {} THEN 0
                   ELSE LET k == CHOOSE x \in ks : TRUE
                        IN f[k] + Sum(ks \ {k})
    IN Sum(DOMAIN f)

\* the files of the reviewed change request that its provider client gives
\* when the provider answers, and the source files among them
FetchedPaths == DOMAIN get_pr_files(fetch.provider, fetch.changes, TRUE).files

FetchedSources ==
    {p \in FetchedPaths : FileExt(p) \in programming_extensions /\ FileExt(p) \notin skip_extensions}

\* C11: a review of fetched source files of which exactly one file's analysis
\* fails returns a result with one entry for each other file and none for the
\* failing one, and counts the other files.
C11_OneFailureDropsOneEntry ==
    (/\ fetch.op = "review_pr"
     /\ fetch.fetch_ok
     /\ Cardinality(fetch.raises \cap FetchedSources) = 1)
        => (/\ fetch.review.code = 200
            /\ fetch.review.file_reviews = FetchedSources \ fetch.raises
            /\ fetch.review.files_analyzed = Cardinality(FetchedSources) - 1)

\* the mean, in hundredths, of a category's score over the files' feedbacks
MeanCategoryScore(analysis_results, c) ==
    Round2(SumSeq([i \in DOMAIN analysis_results |->
                     analysis_results[i].feedback.score.category_scores[c].score]),
           Len(analysis_results) * (Unit \div 100))

Reverse(s) == [i \in DOMAIN s |-> s[Len(s) + 1 - i]]

\* C12: the change-request-level score reports for each of the five
\* categories the mean of the files' scores in that category, whatever the
\* order of the files.
C12_PrCategoryMeans ==
    (pr.op = "calculate_pr_score" /\ pr.analysis_results # <<>>)
        => (/\ \A c \in Categories :
                  /\ c \in DOMAIN pr.overall_score.metrics
                  /\ pr.overall_score.metrics[c] = MeanCategoryScore(pr.analysis_results, c)
            /\ calculate_pr_score(Reverse(pr.analysis_results)) = pr.overall_score)

\* C13: the change-request-level overall score is the sum of the five mean
\* category scores weighted 0.25, 0.25, 0.20, 0.20 and 0.10, and its grade is
\* the grade of that score.
C13_PrOverallFromFiveWeights ==
    LET overall_score ==
            SumOver([c \in Categories |->
                       MeanCategoryScore(pr.analysis_results, c) * weights[c]])
    IN (pr.op = "calculate_pr_score" /\ pr.analysis_results # <<>>)
          => (/\ pr.overall_score.score = Round2(overall_score, 100)
              /\ pr.overall_score.grade = _get_grade(overall_score \div 10))

\* C14: a review returns an entry for a fetched file exactly if the file's
\* lower-cased extension is in the allow-list and not in the deny-list, and
\* counts exactly those files.
C14_DispatchedIffSourceExtension ==
    (fetch.op = "review_pr" /\ fetch.fetch_ok /\ fetch.raises = {})
        => (/\ \A p \in FetchedPaths :
                  p \in fetch.review.file_reviews <=> p \in FetchedSources
            /\ fetch.review.files_analyzed = Cardinality(FetchedSources))

Scored == scoring.op = "feedback"

ScoredFunctions == Get(Get(scoring.analysis, "complexity", <<>>), "functions", <<>>)

ScoredCategory(c) == scoring.feedback.score.category_scores[c].score

\* C15: in every feedback the five category weights sum to 1.0, every category
\* score lies in [0,100] and the overall score lies in [0,100].
C15_ScoresInRange ==
    Scored =>
       /\ DOMAIN scoring.feedback.score.category_scores = Categories
       /\ SumOver([c \in Categories |-> scoring.feedback.score.category_scores[c].weight]) = 100
       /\ \A c \in Categories : ScoredCategory(c) >= 0 /\ ScoredCategory(c) <= Points(100)
       /\ scoring.feedback.score.overall_score >= 0
       /\ scoring.feedback.score.overall_score <= 10000

\* a record with more security issues than the penalty has points for, and a
\* maintainability index of 0, is scored 0 in both categories
C15_Witness ==
    /\ Scored
    /\ Len(scoring.analysis.security) = 5
    /\ ScoredCategory("security") = 0
    /\ ScoredCategory("maintainability") = 0
    /\ ScoredCategory("style") = Points(100)
    /\ scoring.feedback.score.overall_score > 0

\* C16: in every feedback the overall score is the sum of the five reported
\* contributions, both taken at two decimals.
C16_OverallIsSumOfContributions ==
    Scored =>
       scoring.feedback.score.overall_score
          = SumOver([c \in Categories |-> scoring.feedback.score.category_scores[c].contribution])

\* C17: both grade functions give A from 90, B from 80, C from 70, D from 60
\* and F below, so 91 gives A and 89.9 gives B, and no lower score gets a
\* better grade; the grade of a feedback is the grade of its overall score.
C17_GradeBands ==
    LET Rank(g) == CASE g = "A" -> 4 [] g = "B" -> 3 [] g = "C" -> 2 [] g = "D" -> 1
                     [] g = "F" -> 0
        InBand(s, g) == /\ (s >= 90000) <=> (g = "A")
                        /\ (s >= 80000 /\ s < 90000) <=> (g = "B")
                        /\ (s >= 70000 /\ s < 80000) <=> (g = "C")
                        /\ (s >= 60000 /\ s < 70000) <=> (g = "D")
                        /\ (s < 60000) <=> (g = "F")
    IN /\ pr.op = "grade" =>
            /\ InBand(pr.overall_score.score, pr.overall_score.grade)
            /\ InBand(pr.overall_score.score, pr.overall_score.feedback_grade)
            /\ pr.overall_score.score = 91000 => pr.overall_score.feedback_grade = "A"
            /\ pr.overall_score.score = 89900 => pr.overall_score.feedback_grade = "B"
            /\ \A lower \in GradeScores :
                  lower <= pr.overall_score.score
                     => /\ Rank(_get_grade(lower)) <= Rank(pr.overall_score.feedback_grade)
                        /\ Rank(get_grade(lower)) <= Rank(pr.overall_score.grade)
       /\ Scored =>
            InBand(scoring.feedback.score.overall_score * 10, scoring.feedback.score.grade)

C17_Witness ==
    /\ pr.op = "grade"
    /\ pr.overall_score.score = 90000
    /\ pr.overall_score.grade = "A"
    /\ pr.overall_score.feedback_grade = "A"

\* C18: the complexity score of a record is the average over its functions of
\* 100 for a complexity up to 5, 80 up to 10, 60 up to 20, 40 up to 30 and 20
\* above, and 100 for a record with no functions.
C18_ComplexityScore ==
    LET Band(c) == IF c <= 5 THEN 100 ELSE IF c <= 10 THEN 80 ELSE IF c <= 20 THEN 60
                   ELSE IF c <= 30 THEN 40 ELSE 20
        bands == [i \in DOMAIN ScoredFunctions |-> Band(ScoredFunctions[i].complexity)]
    IN Scored =>
          /\ ScoredFunctions = <<>> => ScoredCategory("complexity") = Points(100)
          /\ ScoredFunctions # <<>>
                => ScoredCategory("complexity") * Len(bands) = Points(SumSeq(bands))
          /\ ScoredFunctions = <<[complexity |-> 5]>> => ScoredCategory("complexity") = Points(100)
          /\ ScoredFunctions = <<[complexity |-> 11]>> => ScoredCategory("complexity") = Points(60)
          /\ ScoredFunctions = <<[complexity |-> 31]>> => ScoredCategory("complexity") = Points(20)

\* functions of complexity 5, 10 and 30 average (100 + 80 + 40) / 3
C18_Witness ==
    /\ Scored
    /\ ScoredFunctions = <<[complexity |-> 5], [complexity |-> 10], [complexity |-> 30]>>
    /\ 3 * ScoredCategory("complexity") = Points(220)

\* C19: the documentation score of a record with source lines is 100 for a
\* comment ratio of at least 20%, 80 from 15%, 60 from 10%, 40 from 5% and 20
\* below; it is 100 for a record with no source lines.
C19_DocumentationScore ==
    LET raw == scoring.analysis.raw_metrics
        Score(n) == ScoredCategory("documentation") = Points(n)
    IN (Scored /\ "sloc" \in DOMAIN raw) =>
          /\ raw.sloc = 0 => Score(100)
          /\ raw.sloc > 0 =>
                /\ (raw.comments * 100 >= 20 * raw.sloc) <=> Score(100)
                /\ (raw.comments * 100 >= 15 * raw.sloc /\ raw.comments * 100 < 20 * raw.sloc)
                      <=> Score(80)
                /\ (raw.comments * 100 >= 10 * raw.sloc /\ raw.comments * 100 < 15 * raw.sloc)
                      <=> Score(60)
                /\ (raw.comments * 100 >= 5 * raw.sloc /\ raw.comments * 100 < 10 * raw.sloc)
                      <=> Score(40)
                /\ (raw.comments * 100 < 5 * raw.sloc) <=> Score(20)
          /\ (raw.sloc = 20 /\ raw.comments = 5) => Score(100)
          /\ (raw.sloc = 25 /\ raw.comments = 3) => Score(60)
          /\ (raw.sloc = 20 /\ raw.comments = 0) => Score(20)

\* 3 comments in 20 source lines are exactly 15%
C19_Witness ==
    /\ Scored
    /\ scoring.analysis.raw_metrics = [sloc |-> 20, comments |-> 3]
    /\ ScoredCategory("documentation") = Points(80)

\* C20: the security score of a record with n security issues is
\* max(0, 100 - 25 n): 50 for 2 issues, 0 for 5 and more, never below 0.
C20_SecurityScore ==
    LET n == Len(scoring.analysis.security)
    IN Scored =>
          /\ ScoredCategory("security") = Points(IF 100 - 25 * n > 0 THEN 100 - 25 * n ELSE 0)
          /\ n = 2 => ScoredCategory("security") = Points(50)
          /\ n >= 5 => ScoredCategory("security") = 0
          /\ ScoredCategory("security") >= 0

C20_Witness ==
    /\ Scored
    /\ Len(scoring.analysis.security) >= 5
    /\ ScoredCategory("security") = 0
    /\ scoring.feedback.security_concerns >= 5

ScoredLint == scoring.analysis.linting

\* the penalty weights of the lint issues of the scored record, a kind outside
\* the table weighing `other`
ScoredLintWeight(other) ==
    SumSeq([i \in DOMAIN ScoredLint |->
              CASE ScoredLint[i].type = "convention" -> 1
                [] ScoredLint[i].type = "refactor"   -> 2
                [] ScoredLint[i].type = "warning"    -> 3
                [] ScoredLint[i].type = "error"      -> 5
                [] OTHER                             -> other])

\* C21 as stated: the style score is max(0, 100 - 2 x the summed weights) with
\* convention 1, refactor 2, warning 3, error 5, and an issue of any other
\* kind adds nothing.
C21_OtherKindsAddNothing ==
    Scored => ScoredCategory("style") = Points(Max(0, 100 - 2 * ScoredLintWeight(0)))

\* C21 as amended: the style score is max(0, 100 - 2 x the summed weights) with
\* convention 1, refactor 2, warning 3, error 5, and an issue of any other
\* kind, such as info, weighs 1.
C21_OtherKindsWeighOne ==
    Scored => ScoredCategory("style") = Points(Max(0, 100 - 2 * ScoredLintWeight(1)))

\* an info issue next to a warning costs 2 points more than the warning alone
C21_Witness ==
    /\ Scored
    /\ ScoredLint = <<[type |-> "info"], [type |-> "warning"]>>
    /\ ScoredCategory("style") = Points(92)

\* the scored record is one of the scenario: one function of complexity 12,
\* one security issue, a comment ratio of exactly 15%
ScoredScenario ==
    /\ Scored
    /\ ScoredFunctions = <<[complexity |-> 12]>>
    /\ Len(scoring.analysis.security) = 1
    /\ "sloc" \in DOMAIN scoring.analysis.raw_metrics
    /\ scoring.analysis.raw_metrics.sloc > 0
    /\ scoring.analysis.raw_metrics.comments * 100 = 15 * scoring.analysis.raw_metrics.sloc

\* C22 as stated: a record of the scenario is scored complexity 60, security
\* 75 and documentation 60.
C22_ScenarioDocumentationSixty ==
    ScoredScenario =>
       /\ ScoredCategory("complexity") = Points(60)
       /\ ScoredCategory("security") = Points(75)
       /\ ScoredCategory("documentation") = Points(60)

\* C22 as amended: a record of the scenario is scored complexity 60, security
\* 75 and documentation 80, a ratio of exactly 15% being in the band from 15%.
C22_ScenarioDocumentationEighty ==
    ScoredScenario =>
       /\ ScoredCategory("complexity") = Points(60)
       /\ ScoredCategory("security") = Points(75)
       /\ ScoredCategory("documentation") = Points(80)

C22_Witness ==
    /\ ScoredScenario
    /\ ScoredCategory("documentation") = Points(80)
    /\ scoring.feedback.security_concerns = 1

DetectFromTokenUnknownIfAmbiguous(token) ==
    LET shapes == {p \in {"gitlab", "github", "bitbucket"} :
                     \/ p = "gitlab" /\ GitlabTokenShape(token)
                     \/ p = "github" /\ GithubTokenShape(token)
                     \/ p = "bitbucket" /\ BitbucketTokenShape(token)}
    IN IF Cardinality(shapes) = 1 THEN CHOOSE p \in shapes : TRUE ELSE "unknown"

\* the providers whose name is in the host of the URL of the latest call
NamedInHost ==
    {p \in {"gitlab", "github", "bitbucket"} : InHostname(p, Hostname(call.input))}

Returned(op) == call.op = op /\ call.output # <<>>

\* C24: a token that has the shape of more than one provider, and a hostname
\* that contains the names of more than one provider, are detected as unknown.
C24_AmbiguousIsUnknown ==
    /\ Returned("detect_from_token")
          => call.output[1] = DetectFromTokenUnknownIfAmbiguous(call.input)
    /\ (Returned("detect_from_url") /\ Cardinality(NamedInHost) > 1)
          => call.output[1][1] = "unknown"

\* C25: every item get_pull_requests returns, of any provider and for any
\* state the provider gives a pull request, has the state open or closed.
C25_StateIsOpenOrClosed ==
    Returned("get_pull_requests")
       => \A i \in DOMAIN call.output[1] : call.output[1][i].state \in {"open", "closed"}

\* the summary comments and the inline comments that a sequence of requests posts
SummariesPosted(reqs) ==
    Len(SelectSeq(reqs, LAMBDA r :
           /\ r.method = "POST"
           /\ "inline" \notin DOMAIN r.json
           /\ "position" \notin DOMAIN r.json))

InlinesPosted(reqs) ==
    SumSeq([i \in DOMAIN reqs |->
              IF reqs[i].method # "POST" THEN 0
              ELSE IF "comments" \in DOMAIN reqs[i].json THEN Len(reqs[i].json.comments)
              ELSE IF "inline" \in DOMAIN reqs[i].json \/ "position" \in DOMAIN reqs[i].json
              THEN 1 ELSE 0])

\* the issues of the reviews that have a line number
LocatedIssues(file_reviews) ==
    SumSeq([r \in DOMAIN file_reviews |->
              Len(SelectSeq(IssuesOf(file_reviews[r]),
                            LAMBDA i : Get(i, "line_number", 0) # 0))])

\* C26: publishing a review posts one summary comment and one inline comment
\* per entry, on every provider and through post_review_comments, with no
\* entry too.
C26_OneSummaryAndEveryInline ==
    /\ Returned("create_review")
          => /\ SummariesPosted(call.output[1]) = 1
             /\ InlinesPosted(call.output[1]) = Len(call.input.comments)
    /\ Returned("post_review_comments")
          => /\ SummariesPosted(call.output[1]) = 1
             /\ InlinesPosted(call.output[1]) = LocatedIssues(call.input.file_reviews)

\* no native lint tool for the language of the latest call of _run_linter: no
\* key of the table, or a tool of the table that cannot be started
NoNativeTool ==
    \/ call.input.lang \notin DOMAIN language_linters
    \/ /\ call.input.lang \in DOMAIN language_linters \ {"generic"}
       /\ call.input.env.tool = "missing"

\* C27: with no native lint tool for the language, the linting is the generic
\* analyzer's result on the content and holds no error marker.
C27_DegradesToGeneric ==
    (Returned("_run_linter") /\ NoNativeTool)
       => /\ \A i \in DOMAIN call.output[1] : call.output[1][i].symbol # "error"
          /\ call.output[1] = _analyze_generic(call.input.content)

\* the task has ended: it stored its Session and returned, or left the loop
Ended == pc \in {"returned", "timeout"}

\* another run of the task begins: it sends its first request, and leaves the
\* store alone
NewRun ==
    /\ pc' = "get_access_token" /\ attempt' = 0 /\ requests' = 1 /\ sleeps' = 0
    /\ UNCHANGED <<access_tokens, last_write>>

\* C28: a run of the polling task ends either with its Session stored
\* (Authenticated) or without one and with no entry for its id (Denied,
\* TimedOut), never both; and once it has ended it sends no token request and
\* neither writes to nor evicts from the session store: until another run
\* begins, the task's state stays as it is, whatever the logins do meanwhile.
C28_EndedIsAbsorbing ==
    [][/\ TaskEnds
          => \/ /\ pc' = "returned"
                /\ task_client_id \in DOMAIN access_tokens'
                /\ access_tokens'[task_client_id] =
                      Session(GithubToken, "github", task_provider_url)
             \/ /\ pc' = "timeout"
                /\ task_client_id \notin DOMAIN access_tokens'
       /\ Ended => (UNCHANGED taskVars \/ NewRun)]_vars

\* the task timed out and evicted its id; a direct-token login for the same id
\* then stored a Session, which is still there
C28_Witness ==
    /\ pc = "timeout" /\ requests = 30
    /\ response.status = "authenticated" /\ response.client_id = task_client_id
    /\ task_client_id \in DOMAIN access_tokens
    /\ access_tokens[task_client_id].provider = response.provider

\* C29: the change-request-level score has a grade among A, B, C, D and F and
\* a score between 0 and 100 (in hundredths here), also when no file was
\* analyzed.
C29_PrGradeAndScoreInRange ==
    pr.op = "calculate_pr_score"
       => /\ pr.overall_score.grade \in {"A", "B", "C", "D", "F"}
          /\ pr.overall_score.score \in 0..10000

\* the entry of the id is a Session whose verification call has not returned
Unverified(client_id) ==
    /\ client_id \in DOMAIN access_tokens
    /\ access_tokens[client_id].provider \in DirectProviders
    /\ inflight[<<client_id, access_tokens[client_id].provider>>] > 0

\* C30: a listing endpoint that finds a Session for the id, and so sends a
\* request with its token, finds one whose authentication has succeeded: never
\* one stored by a login whose verification call is still in flight.
C30_OnlyVerifiedTokensUsed ==
    [][(/\ NewResponse
        /\ response'.endpoint \in {"prs", "repos"}
        /\ response'.code # 401)
          => ~Unverified(response'.client_id)]_vars

====
